---- MODULE Spec2Model ----
(***************************************************************************)
(* TTSNode (nodes/ExampleNode/ExampleNode.node.ts): the execute method of  *)
(* the text-to-speech node and its two helpers, concatFloat32Arrays and    *)
(* float32ToInt16.                                                         *)
(*                                                                         *)
(* Numbers that are reals in the program are exact rationals here:         *)
(*   a sample is  k / SampleDen          (k an integer),                   *)
(*   a pause  is  q / PauseDen  seconds  (q an integer).                   *)
(* A text is a sequence of one-character strings.                          *)
(***************************************************************************)
EXTENDS Integers, Sequences, FiniteSets, TLC

\* ---------------------------------------------------------------- bounds
MaxItems == 2
MaxAppended == 1
MaxTextLen == 3
MaxAudioLen == 1
MaxRate == 2
MaxPauseQ == 3
MaxInvocations == 2
SampleDen == 3
PauseDen == 4

\* ------------------------------------------------------ program constants
DefaultSamplingRate == 22050
ScaleNeg == 32768
ScalePos == 32767

\* ---------------------------------------------------------------- values
NL == "\n"
SP == " "
Chars == {"a", SP, NL}
Whitespace == {SP, NL}

Texts == UNION {[1..n -> Chars] : n \in 0..MaxTextLen}

\* Samples the engine can return, as numerators over SampleDen: -2.0 .. 2.0
SampleNums == (-2 * SampleDen)..(2 * SampleDen)
Rates == 1..MaxRate
Pauses == (-1)..MaxPauseQ

Max(a, b) == IF a >= b THEN a ELSE b
Min(a, b) == IF a <= b THEN a ELSE b
\* Number -> integer conversion of the language: the fraction is dropped
TruncDiv(a, b) == IF a >= 0 THEN a \div b ELSE -((-a) \div b)

RECURSIVE SumLen(_)
SumLen(arrays) ==
    IF arrays = <<>> THEN 0 ELSE Len(Head(arrays)) + SumLen(Tail(arrays))

RECURSIVE FlattenFrom(_)
FlattenFrom(arrays) ==
    IF arrays = <<>> THEN <<>> ELSE Head(arrays) \o FlattenFrom(Tail(arrays))

\* A bug concatFloat32Arrays could have: the last array is left out
concatAllButLast(arrays) ==
    IF arrays = <<>> THEN <<>>
    ELSE FlattenFrom(SubSeq(arrays, 1, Len(arrays) - 1))

\* result = new Float32Array(totalLength); every array copied at its offset
concatFloat32Arrays(arrays) ==
    LET totalLength == SumLen(arrays)
        flat == FlattenFrom(arrays)
    IN  [n \in 1..totalLength |-> flat[n]]

\* Math.max(-1, Math.min(1, x)) on a numerator over SampleDen
Clamp(k) == Max(-SampleDen, Min(SampleDen, k))

\* Storing a number in an Int16Array: drop the fraction, wrap modulo 2^16
ToInt16(num, den) ==
    LET t == TruncDiv(num, den)
    IN  ((t + ScaleNeg) % (2 * ScaleNeg)) - ScaleNeg

\* A bug float32ToInt16 could have: the sample is scaled without the clamp
float32ToInt16Unclamped(buffer) ==
    [n \in 1..Len(buffer) |->
        LET s == buffer[n]
        IN  IF s < 0 THEN ToInt16(s * ScaleNeg, SampleDen)
                     ELSE ToInt16(s * ScalePos, SampleDen)]

float32ToInt16(buffer) ==
    [n \in 1..Len(buffer) |->
        LET s == Clamp(buffer[n])
        IN  IF s < 0 THEN ToInt16(s * ScaleNeg, SampleDen)
                     ELSE ToInt16(s * ScalePos, SampleDen)]

\* new Float32Array(samplingRate * pauseDuration): the length is the product
\* with its fraction dropped; a negative length is a RangeError
PauseLength(rate, pause) == TruncDiv(rate * pause, PauseDen)
AllocFails(rate, pause) == PauseLength(rate, pause) < 0
PauseSamples(rate, pause) == [n \in 1..PauseLength(rate, pause) |-> 0]

\* String.prototype.split('\n')
RECURSIVE Split(_)
Split(t) ==
    IF \A k \in 1..Len(t) : t[k] # NL
    THEN <<t>>
    ELSE LET p == CHOOSE k \in 1..Len(t) :
                      t[k] = NL /\ \A m \in 1..(k - 1) : t[m] # NL
         IN  <<SubSeq(t, 1, p - 1)>> \o Split(SubSeq(t, p + 1, Len(t)))

\* String.prototype.trim()
RECURSIVE TrimLeft(_)
TrimLeft(s) ==
    IF s # <<>> /\ Head(s) \in Whitespace THEN TrimLeft(Tail(s)) ELSE s
RECURSIVE TrimRight(_)
TrimRight(s) ==
    IF s # <<>> /\ s[Len(s)] \in Whitespace
    THEN TrimRight(SubSeq(s, 1, Len(s) - 1)) ELSE s
Trim(s) == TrimRight(TrimLeft(s))

KeepSentence(sentence) == Trim(sentence) # <<>>
\* text.split('\n').filter((sentence) => sentence.trim() !== '')
Segment(t) == SelectSeq(Split(t), KeepSentence)

\* ---------------------------------------------------------------- errors
\* An error object: its class name, its message, whether it has a context
\* property, and the context's itemIndex (-1: not set).
NoError ==
    [name |-> "", message |-> "none", hasContext |-> FALSE, itemIndex |-> -1]
\* new NodeOperationError(node, 'No text provided', { itemIndex })
NoTextError(idx) ==
    [name |-> "NodeOperationError", message |-> "No text provided",
     hasContext |-> TRUE, itemIndex |-> idx]
\* new NodeOperationError(node, 'Failed to load TTS model', { error })
LoadError ==
    [name |-> "NodeOperationError", message |-> "Failed to load TTS model",
     hasContext |-> TRUE, itemIndex |-> -1]
\* RangeError: Invalid typed array length
RangeError ==
    [name |-> "RangeError", message |-> "Invalid typed array length",
     hasContext |-> FALSE, itemIndex |-> -1]
\* What the host throws when asked for an input it does not have
HostError ==
    [name |-> "Error", message |-> "Could not get input",
     hasContext |-> FALSE, itemIndex |-> -1]
\* What tts.generate can reject with: a plain Error, an error that has a
\* context without an item index, an error whose context names item 0
SynthesisErrors ==
    { [name |-> IF c THEN "NodeApiError" ELSE "Error",
       message |-> "synthesis failed", hasContext |-> c, itemIndex |-> x] :
        <<c, x>> \in {<<FALSE, -1>>, <<TRUE, -1>>, <<TRUE, 0>>} }

\* A bug Rethrow could have: an error that has a context is thrown as it came
RethrowAsCaught(error, idx) ==
    IF error.hasContext
    THEN error
    ELSE [name |-> "NodeOperationError", message |-> error.message,
          hasContext |-> TRUE, itemIndex |-> idx]

\* The error execute throws for a failed item when continueOnFail() is false:
\* the caught error with context.itemIndex set, or a NodeOperationError
\* made from it with { itemIndex }
Rethrow(error, idx) ==
    IF error.hasContext
    THEN [error EXCEPT !.itemIndex = idx]
    ELSE [name |-> "NodeOperationError", message |-> error.message,
          hasContext |-> TRUE, itemIndex |-> idx]

\* ----------------------------------------------------------------- items
NoBinary ==
    [present |-> FALSE, numChannels |-> 0, sampleRate |-> 0, bitDepth |-> "",
     samples |-> <<>>, mimeType |-> "", fileName |-> ""]
\* wav.fromScratch(1, samplingRate, '16', int16Samples), attached as audio
WavBinary(rate, int16Samples) ==
    [present |-> TRUE, numChannels |-> 1, sampleRate |-> rate, bitDepth |-> "16",
     samples |-> int16Samples, mimeType |-> "audio/wav", fileName |-> "result.wav"]
\* An input item as the host supplies it; json is a reference to its json object
InputItem(ref) ==
    [json |-> ref, binary |-> NoBinary, error |-> NoError, pairedItem |-> -1]
\* { json: this.getInputData(itemIndex)[0].json, error, pairedItem: itemIndex }
ErrorItem(ref, error, idx) ==
    [json |-> ref, binary |-> NoBinary, error |-> error, pairedItem |-> idx]

\* this.getInputData(inputIndex) on a node with one input: input 0 is the
\* collection execute iterates; any other index is outside the node's inputs
\* and the host either hands back its main input or throws.
HostInputOutcomes(inputIndex) ==
    IF inputIndex = 0 THEN {"items"} ELSE {"items", "throws"}

\* ----------------------------------------------------------------- state
VARIABLES
    pc,             \* where execute is: idle, loading, items, sentences, returned, thrown
    env,            \* the engine and the host of this process (see Engine, Host)
    invocations,    \* calls of execute so far
    loaded,         \* completed KokoroTTS.from_pretrained loads in this process
    items,          \* const items = this.getInputData()
    jsons,          \* the json objects items refer to: ref -> ttsStatus
    inputLen,       \* items.length when execute started
    pauseDuration,  \* in 1/PauseDen seconds
    continueOnFail, \* this.continueOnFail()
    itemIndex,
    text,
    sentences,
    i,
    samplingRate,
    pauseSamples,   \* the all-zero Float32Array, held as its length
    audioChunks,
    flattenedAudio, \* the last concatFloat32Arrays result
    thrown,         \* the error execute rejected with
    attempted,      \* item indexes the loop body ran for, in order
    synthArgs,      \* sentences handed to tts.generate for the current item
    synthRes        \* what tts.generate returned for them: [audio, rate]

vars == <<pc, env, invocations, loaded, items, jsons, inputLen, pauseDuration,
          continueOnFail, itemIndex, text, sentences, i, samplingRate,
          pauseSamples, audioChunks, flattenedAudio, thrown, attempted,
          synthArgs, synthRes>>

params == <<invocations, pauseDuration, continueOnFail, inputLen>>
locals == <<text, sentences, i, samplingRate, pauseSamples, audioChunks>>
trace == <<synthArgs, synthRes>>

AudioBuffers(nums) == UNION {[1..n -> nums] : n \in 0..MaxAudioLen}
PlainError == CHOOSE e \in SynthesisErrors : ~e.hasContext
\* env: what tts.generate can answer (audios, rates, errors), the sizes of the
\* input collections and the pause durations the host supplies, and how many
\* times the host calls execute in this process (runs).
\* One fixed answer per call, jobs of up to MaxItems items
ItemsEnv ==
    [audios |-> {<<SampleDen>>}, rates |-> {1}, errors |-> SynthesisErrors,
     sizes |-> 0..MaxItems, pauses |-> {-1, 0}, runs |-> 1]
\* Every sample value, one rate, one item
SampleEnv ==
    [audios |-> {<<k>> : k \in SampleNums}, rates |-> {MaxRate},
     errors |-> {PlainError}, sizes |-> {1}, pauses |-> Pauses, runs |-> 1]
\* Every length and every rate, one item
RateEnv ==
    [audios |-> AudioBuffers({SampleDen}), rates |-> Rates,
     errors |-> {PlainError}, sizes |-> {1}, pauses |-> Pauses, runs |-> 1]
\* execute called again and again on small jobs
JobsEnv ==
    [audios |-> {<<SampleDen>>}, rates |-> {1}, errors |-> {PlainError},
     sizes |-> {0, 1}, pauses |-> {-1, 0}, runs |-> MaxInvocations]

InitState ==
    /\ pc = "idle"
    /\ loaded = 0
    /\ invocations = 0
    /\ items = <<>>
    /\ jsons = <<>>
    /\ inputLen = 0
    /\ pauseDuration = 0
    /\ continueOnFail = FALSE
    /\ itemIndex = 0
    /\ text = <<>>
    /\ sentences = <<>>
    /\ i = 0
    /\ samplingRate = 0
    /\ pauseSamples = 0
    /\ audioChunks = <<>>
    /\ flattenedAudio = <<>>
    /\ thrown = NoError
    /\ attempted = <<>>
    /\ synthArgs = <<>>
    /\ synthRes = <<>>

Init == InitState /\ env = ItemsEnv
InitAudio == InitState /\ env \in {SampleEnv, RateEnv}
InitJobs == InitState /\ env = JobsEnv

\* --------------------------------------------------------------- actions
\* execute is called: lines 77-87, up to the await of from_pretrained
Invoke ==
    /\ pc \in {"idle", "returned", "thrown"}
    /\ invocations < env.runs
    /\ invocations' = invocations + 1
    /\ \E n \in env.sizes, p \in env.pauses, c \in BOOLEAN :
        /\ items' = [k \in 1..n |-> InputItem(k)]
        /\ jsons' = [k \in 1..n |-> "none"]
        /\ inputLen' = n
        /\ pauseDuration' = p
        /\ continueOnFail' = c
    /\ pc' = "loading"
    /\ itemIndex' = 0
    /\ text' = <<>>
    /\ sentences' = <<>>
    /\ i' = 0
    /\ samplingRate' = 0
    /\ pauseSamples' = 0
    /\ audioChunks' = <<>>
    /\ flattenedAudio' = <<>>
    /\ thrown' = NoError
    /\ attempted' = <<>>
    /\ synthArgs' = <<>>
    /\ synthRes' = <<>>
    /\ UNCHANGED <<env, loaded>>

\* from_pretrained resolves: the item loop starts (lines 87, 97)
LoadOk ==
    /\ pc = "loading"
    /\ loaded' = loaded + 1
    /\ pc' = "items"
    /\ UNCHANGED <<env, params, items, jsons, itemIndex, locals, flattenedAudio,
                   thrown, attempted, trace>>

\* from_pretrained rejects (lines 90-94)
LoadFail ==
    /\ pc = "loading"
    /\ pc' = "thrown"
    /\ thrown' = LoadError
    /\ UNCHANGED <<env, params, loaded, items, jsons, itemIndex, locals,
                   flattenedAudio, attempted, trace>>

\* The block-scoped variables of the loop body go out of scope
LeaveBody ==
    /\ text' = <<>>
    /\ sentences' = <<>>
    /\ i' = 0
    /\ samplingRate' = 0
    /\ pauseSamples' = 0
    /\ audioChunks' = <<>>
    /\ synthArgs' = <<>>

\* The catch block of the item loop (lines 152-166) and the loop's increment
Catch(error) ==
    /\ LeaveBody
    /\ IF continueOnFail
       THEN \E got \in HostInputOutcomes(itemIndex) :
               IF got = "items"
               THEN /\ Len(items) < inputLen + MaxAppended
                    /\ items' = Append(items, ErrorItem(items[1].json, error, itemIndex))
                    /\ itemIndex' = itemIndex + 1
                    /\ pc' = "items"
                    /\ thrown' = thrown
               ELSE /\ pc' = "thrown"
                    /\ thrown' = HostError
                    /\ UNCHANGED <<items, itemIndex>>
       ELSE /\ pc' = "thrown"
            /\ thrown' = Rethrow(error, itemIndex)
            /\ UNCHANGED <<items, itemIndex>>

\* The loop body begins for an item and its text is empty (lines 97-103, 152-166)
ItemNoText ==
    /\ pc = "items"
    /\ itemIndex < Len(items)
    /\ attempted' = Append(attempted, itemIndex)
    /\ synthRes' = <<>>
    /\ Catch(NoTextError(itemIndex))
    /\ UNCHANGED <<env, params, loaded, jsons, flattenedAudio>>

\* The loop body begins for an item that has text (lines 97-113, 152-166)
ItemStart ==
    /\ pc = "items"
    /\ itemIndex < Len(items)
    /\ \E t \in Texts \ {<<>>} :
        /\ attempted' = Append(attempted, itemIndex)
        /\ synthRes' = <<>>
        /\ IF AllocFails(DefaultSamplingRate, pauseDuration)
           THEN Catch(RangeError)
           ELSE /\ text' = t
                /\ synthArgs' = <<>>
                /\ sentences' = Segment(t)
                /\ samplingRate' = DefaultSamplingRate
                /\ audioChunks' = <<>>
                /\ pauseSamples' = PauseLength(DefaultSamplingRate, pauseDuration)
                /\ i' = 0
                /\ pc' = "sentences"
                /\ UNCHANGED <<items, itemIndex, thrown>>
    /\ UNCHANGED <<env, params, loaded, jsons, flattenedAudio>>

\* A bug UpdatedRate could have: only the first reported rate replaces the default
UpdatedRateOnce(current, reported) ==
    IF current = DefaultSamplingRate THEN reported ELSE current

\* The rate execute keeps after a call of tts.generate (line 120)
UpdatedRate(current, reported) == reported
\* The argument of tts.generate (lines 117-118)
SynthesisArg(sentence) == sentence

\* tts.generate answers for sentence i (lines 116-126)
Generate ==
    /\ pc = "sentences"
    /\ i < Len(sentences)
    /\ \E audio \in env.audios, rate \in env.rates :
        LET r == UpdatedRate(samplingRate, rate) IN
        /\ synthRes' = Append(synthRes, [audio |-> audio, rate |-> rate])
        /\ IF AllocFails(r, pauseDuration)
           THEN Catch(RangeError)
           ELSE /\ synthArgs' = Append(synthArgs, SynthesisArg(sentences[i + 1]))
                /\ samplingRate' = r
                /\ pauseSamples' = PauseLength(r, pauseDuration)
                /\ audioChunks' =
                       audioChunks \o <<audio, PauseSamples(r, pauseDuration)>>
                /\ i' = i + 1
                /\ UNCHANGED <<pc, items, itemIndex, thrown, text, sentences>>
    /\ UNCHANGED <<env, params, loaded, jsons, flattenedAudio, attempted>>

\* tts.generate rejects for sentence i (lines 118, 152-166)
GenerateFail ==
    /\ pc = "sentences"
    /\ i < Len(sentences)
    /\ \E e \in env.errors : Catch(e)
    /\ UNCHANGED <<env, params, loaded, jsons, flattenedAudio, attempted, synthRes>>

\* After the last sentence: concatenate, quantize, encode, attach (lines 130-151)
FinishItem ==
    /\ pc = "sentences"
    /\ i = Len(sentences)
    /\ LET flat == concatFloat32Arrays(audioChunks)
           int16Samples == float32ToInt16(flat)
       IN  /\ flattenedAudio' = flat
           /\ items' = [items EXCEPT ![itemIndex + 1].binary =
                                        WavBinary(samplingRate, int16Samples)]
    /\ jsons' = [jsons EXCEPT ![items[itemIndex + 1].json] = "success"]
    /\ LeaveBody
    /\ itemIndex' = itemIndex + 1
    /\ pc' = "items"
    /\ UNCHANGED <<env, params, loaded, thrown, attempted, synthRes>>

\* The item loop ends: return [items] (lines 97, 169)
Return ==
    /\ pc = "items"
    /\ itemIndex >= Len(items)
    /\ pc' = "returned"
    /\ UNCHANGED <<env, params, loaded, items, jsons, itemIndex, locals,
                   flattenedAudio, thrown, attempted, trace>>

Next ==
    \/ Invoke
    \/ LoadOk
    \/ LoadFail
    \/ ItemNoText
    \/ ItemStart
    \/ Generate
    \/ GenerateFail
    \/ FinishItem
    \/ Return

Spec == Init /\ [][Next]_vars
SpecAudio == InitAudio /\ [][Next]_vars
SpecJobs == InitJobs /\ [][Next]_vars

\* ---------------------------------------------------------------- claims
Last(seq) == seq[Len(seq)]
\* The loop body has run to its end for an item and attached a WAV to it
LastSucceeded ==
    /\ pc \in {"items", "returned"}
    /\ attempted # <<>>
    /\ items[Last(attempted) + 1].binary.present
LastWav == items[Last(attempted) + 1].binary
Status(k) == jsons[items[k].json]
Abs(x) == IF x < 0 THEN -x ELSE x

\* C4: when continueOnFail() is false and item k is the first to fail, execute
\* throws at once: the body ran for items 0..k only, every item before k got
\* its WAV, no item after k was touched, nothing is returned, and the error
\* thrown has context.itemIndex = k, whatever context the caught error had.
C4_RethrowCarriesItemIndex ==
    (pc = "thrown" /\ ~continueOnFail /\ attempted # <<>>) =>
        LET k == Last(attempted) IN
        /\ thrown.hasContext
        /\ thrown.itemIndex = k
        /\ itemIndex = k
        /\ attempted = [n \in 1..(k + 1) |-> n - 1]
        /\ Len(items) = inputLen
        /\ \A n \in 1..k : items[n].binary.present /\ Status(n) = "success"
        /\ \A n \in (k + 1)..Len(items) : items[n] = InputItem(n) /\ Status(n) = "none"

\* The second item fails with an error that already has a context
C4_Witness ==
    /\ pc = "thrown"
    /\ ~continueOnFail
    /\ attempted = <<0, 1>>
    /\ thrown.name = "NodeApiError"
    /\ thrown.itemIndex = 1

RECURSIVE SumAudio(_)
SumAudio(res) ==
    IF res = <<>> THEN 0 ELSE Len(Head(res).audio) + SumAudio(Tail(res))
RECURSIVE SumGaps(_, _)
SumGaps(res, pause) ==
    IF res = <<>> THEN 0
    ELSE PauseLength(Head(res).rate, pause) + SumGaps(Tail(res), pause)
\* audio 1, gap 1, audio 2, gap 2, ..., audio n, gap n
RECURSIVE Interleaved(_, _)
Interleaved(res, pause) ==
    IF res = <<>> THEN <<>>
    ELSE Head(res).audio
           \o [k \in 1..PauseLength(Head(res).rate, pause) |-> 0]
           \o Interleaved(Tail(res), pause)

\* C5: for sentences s1..sn answered with audio a1..an at rates r1..rn, the
\* concatenated buffer is a1, gap(r1), a2, gap(r2), ..., an, gap(rn): n gaps,
\* the last one trailing, gap i sized from rate ri, of total length
\* sum(len ai) + sum(gap(ri, pause)).
C5_AssemblyLength ==
    /\ pc = "sentences" =>
        /\ i <= Len(sentences)
        /\ Len(synthRes) = i
        /\ Len(audioChunks) = 2 * i
        /\ \A n \in 1..i :
            /\ audioChunks[2 * n - 1] = synthRes[n].audio
            /\ Len(audioChunks[2 * n]) = PauseLength(synthRes[n].rate, pauseDuration)
    /\ LastSucceeded =>
        /\ Len(flattenedAudio) =
               SumAudio(synthRes) + SumGaps(synthRes, pauseDuration)
        /\ flattenedAudio = Interleaved(synthRes, pauseDuration)
        /\ Len(LastWav.samples) = Len(flattenedAudio)

\* Two sentences answered at different rates, with gaps of different lengths
C5_Witness ==
    /\ LastSucceeded
    /\ Len(synthRes) = 2
    /\ synthRes[1].rate # synthRes[2].rate
    /\ PauseLength(synthRes[1].rate, pauseDuration)
         # PauseLength(synthRes[2].rate, pauseDuration)
    /\ Len(synthRes[1].audio) # Len(synthRes[2].audio)
    /\ PauseLength(synthRes[2].rate, pauseDuration) > 0

\* C6: the WAV of an item is encoded at the rate the last sentence's call
\* reported; with no sentence the rate is 22050 and the WAV has no samples.
C6_RateOfLastSentence ==
    LastSucceeded =>
        IF synthRes = <<>>
        THEN LastWav.sampleRate = 22050 /\ LastWav.samples = <<>>
        ELSE LastWav.sampleRate = Last(synthRes).rate

\* The first sentence was answered at a higher rate than the last one
C6_Witness ==
    /\ LastSucceeded
    /\ Len(synthRes) = 2
    /\ synthRes[1].rate > synthRes[2].rate
    /\ LastWav.sampleRate = synthRes[2].rate

\* C8: float32ToInt16 keeps length and order; each sample is clamped to
\* [-1, 1], then scaled by 32768 if negative and by 32767 otherwise, and the
\* fraction is dropped: the result is within [-32768, 32767], never wrapped
\* (1.0 -> 32767, -1.0 -> -32768, 2.0 -> 32767, -2.0 -> -32768, 0.0 -> 0).
C8_Quantization ==
    LastSucceeded =>
        /\ Len(LastWav.samples) = Len(flattenedAudio)
        /\ \A n \in 1..Len(flattenedAudio) :
            LET x == flattenedAudio[n]
                y == LastWav.samples[n]
                c == IF x > SampleDen THEN SampleDen
                     ELSE IF x < -SampleDen THEN -SampleDen ELSE x
                scale == IF c < 0 THEN 32768 ELSE 32767
            IN  /\ y \in (-32768)..32767
                /\ (c < 0) => y <= 0
                /\ (c >= 0) => y >= 0
                /\ Abs(y) * SampleDen <= Abs(c) * scale
                /\ Abs(c) * scale < (Abs(y) + 1) * SampleDen
                /\ (x >= SampleDen) => y = 32767
                /\ (x <= -SampleDen) => y = -32768
                /\ (x = 0) => y = 0

\* One buffer holds a sample of 2.0 and a negative sample whose product has a fraction
C8_Witness ==
    /\ LastSucceeded
    /\ \E n \in 1..Len(flattenedAudio) :
        flattenedAudio[n] = 2 * SampleDen /\ LastWav.samples[n] = 32767
    /\ \E n \in 1..Len(flattenedAudio) :
        /\ flattenedAudio[n] < 0
        /\ flattenedAudio[n] > -SampleDen
        /\ (flattenedAudio[n] * 32768) % SampleDen # 0

\* C1: with continueOnFail() true, what execute returns is the items that
\* succeeded, in their input order, followed by the items that failed, each
\* with its error: every input item appears once, a failed item only at the end.
C1_FailedItemsMoveToEnd ==
    (pc = "returned" /\ continueOnFail) =>
        /\ Len(items) = inputLen
        /\ \E m \in 0..Len(items) :
            /\ \A n \in 1..m :
                /\ items[n].binary.present
                /\ items[n].error = NoError
                /\ Status(n) = "success"
            /\ \A n, n2 \in 1..m : n < n2 => items[n].json < items[n2].json
            /\ \A n \in (m + 1)..Len(items) :
                /\ ~items[n].binary.present
                /\ items[n].error # NoError
                /\ items[n].json = items[n].pairedItem + 1

\* C2: an item whose text is empty or has only whitespace and newlines gets an
\* error of its own: no tts.generate call, no WAV and no success status for it.
C2_BlankTextRaises ==
    [][(pc = "sentences" /\ Segment(text) = <<>>) =>
          /\ synthArgs' = <<>>
          /\ ~items'[itemIndex + 1].binary.present
          /\ jsons'[items[itemIndex + 1].json] # "success"]_vars

\* C3: however often execute is called in one process, the TTS model is
\* loaded at most once.
C3_ModelLoadedOnce == loaded <= 1

\* C7: a silence gap has round(rate * pause) samples, the nearest integer and
\* not the truncation, all of them zero; a pause of 0 gives no sample, and
\* 0.5 s at 22050 Hz gives 11025.
C7_SilenceLengthRounded ==
    pc = "sentences" =>
        /\ 2 * Abs(pauseSamples * PauseDen - samplingRate * pauseDuration) <= PauseDen
        /\ (pauseDuration = 0) => pauseSamples = 0
        /\ (samplingRate = 22050 /\ 2 * pauseDuration = PauseDen) => pauseSamples = 11025
        /\ \A n \in 1..i :
            /\ Len(audioChunks[2 * n]) = pauseSamples
                   \/ synthRes[n].rate # samplingRate
            /\ \A k \in 1..Len(audioChunks[2 * n]) : audioChunks[2 * n][k] = 0

\* The lines of a text that are not empty once trimmed, each one trimmed
TrimmedLines(t) ==
    LET kept == SelectSeq(Split(t), KeepSentence)
    IN  [n \in 1..Len(kept) |-> Trim(kept[n])]

\* C9: the sentences handed to tts.generate are the lines of the text that are
\* not empty once trimmed, in order, duplicates kept, each one trimmed.
C9_SentencesTrimmed ==
    pc = "sentences" =>
        /\ synthArgs = SubSeq(TrimmedLines(text), 1, i)
        /\ \A n \in 1..Len(synthArgs) : Trim(synthArgs[n]) # <<>>

\* C10: with continueOnFail() true the loop body runs once for each of the n
\* input items, in index order, and for nothing else: an entry appended for a
\* failed item is not processed as an item.
C10_BodyOncePerInputItem ==
    continueOnFail =>
        /\ Len(attempted) <= inputLen
        /\ \A n \in 1..Len(attempted) : attempted[n] = n - 1
        /\ (pc = "returned") => Len(attempted) = inputLen

====
